---- MODULE Spec2Model ----
(***************************************************************************)
(* State-machine model of mirror.py (PyMirror): one run of the script is   *)
(* settings validation, root/mirror checks, the erase loop, the top-level  *)
(* update loop and the recursive MirrorFiles walk.  Strings are sequences  *)
(* of one-character strings; a path is a sequence of names (the segments   *)
(* between "/").                                                           *)
(***************************************************************************)
EXTENDS Integers, Sequences, FiniteSets, TLC

VARIABLES config, randomize, tree, rootExists, listOrder,
          mirrorExists, mirror, strays,
          pc, eraseList, stack, log, copied, run, mirror0, exists0, snap

vars == <<config, randomize, tree, rootExists, listOrder,
          mirrorExists, mirror, strays,
          pc, eraseList, stack, log, copied, run, mirror0, exists0, snap>>

(***************************************************************************)
(* Bounds of the model.                                                    *)
(***************************************************************************)
MaxFiles == 2
MaxRuns == 2
MaxUseless == 1

(***************************************************************************)
(* Names used by the file systems the model explores.                      *)
(***************************************************************************)
RootName == <<"R">>
ExtName == <<"M">>
MirrorName == <<".", "M", "i", "r", "r", "o", "r">>
DotValue == <<".">>
UnknownExt == <<"u", "n", "k", "n", "o", "w", "n">>
IniExt == <<"i", "n", "i">>
DefaultSeparator == <<"#", ",">>

N_a == <<"a">>
N_b == <<"b">>
N_k == <<"k">>
N_h == <<".", "h">>
N_x == <<".", "x">>
N_ax == <<"a", ".", "x">>

CandidateFiles ==
  << << <<"r", ".", "t">> >>,
     <<N_a, <<"x", ".", "y", ".", "t">> >>,
     <<N_a, N_b, <<"f", ".", "t">> >>,
     <<N_a, N_h, <<"s", ".", "i", "n", "i">> >>,
     <<N_x, <<"p", ".", "t">> >>,
     <<N_a, <<"n">> >>,
     <<N_a, <<"u", ".", "t">> >>,
     <<N_a, N_k, <<"z", ".", "t">> >>,
     <<N_ax, <<"y", ".", "t">> >> >>

CandidateSet == {CandidateFiles[j] : j \in 1..Len(CandidateFiles)}

\* the bytes of a source file: every candidate file has its own content
BytesOf(p) == CHOOSE j \in 1..Len(CandidateFiles) : CandidateFiles[j] = p

\* the content of a file left in the mirror folder by an earlier use
OldBytes == Len(CandidateFiles) + 1
OldName == <<"o", ".", "t">>
StrayName == <<"d">>

UnreadableFiles == { <<N_a, <<"u", ".", "t">> >> }
UnlistableDirs == { <<N_a, N_k>> }

OverrideChoices == { <<>>, <<N_x, MirrorName>> }
RandomLetters == {"P", "Q"}
RandomLen == 20

(***************************************************************************)
(* Strings.                                                                *)
(***************************************************************************)
Alphabet == <<".", "#", ",", "0", "1", "2", "3", "4", "5", "6", "7", "8", "9",
              "M", "P", "Q", "R", "a", "b", "d", "f", "h", "i", "k", "n", "o",
              "p", "r", "s", "t", "u", "w", "x", "y", "z">>

CharRank(c) == CHOOSE j \in 1..Len(Alphabet) : Alphabet[j] = c

RECURSIVE StrLess(_, _)
StrLess(s, t) ==
  IF t = <<>> THEN FALSE
  ELSE IF s = <<>> THEN TRUE
  ELSE IF s[1] = t[1] THEN StrLess(Tail(s), Tail(t))
  ELSE CharRank(s[1]) < CharRank(t[1])

StartsWith(s, c) == Len(s) >= 1 /\ s[1] = c

InList(x, l) == \E j \in 1..Len(l) : l[j] = x

\* sep.join(parts)
RECURSIVE Join(_, _)
Join(sep, parts) ==
  IF parts = <<>> THEN <<>>
  ELSE IF Len(parts) = 1 THEN parts[1]
  ELSE parts[1] \o sep \o Join(sep, Tail(parts))

Digits == <<"0", "1", "2", "3", "4", "5", "6", "7", "8", "9">>

\* str(i) for a natural number
RECURSIVE IntToStr(_)
IntToStr(n) ==
  IF n < 10 THEN <<Digits[n + 1]>>
  ELSE IntToStr(n \div 10) \o <<Digits[(n % 10) + 1]>>

DotPositions(s) == {j \in 1..Len(s) : s[j] = "."}

LastDot(s) == CHOOSE j \in DotPositions(s) : \A l \in DotPositions(s) : l <= j

\* re.match(FILE_EXTENSION_REGEX, name) and the fallback of lines 123-129
SplitExtension(name) ==
  IF DotPositions(name) = {}
  THEN [matched |-> FALSE, file_name |-> name, extension |-> UnknownExt]
  ELSE [matched |-> TRUE,
        file_name |-> SubSeq(name, 1, LastDot(name) - 1),
        extension |-> SubSeq(name, LastDot(name) + 1, Len(name))]

RandomNames == {[j \in 1..RandomLen |-> c] : c \in RandomLetters}


(***************************************************************************)
(* Settings (mirror_config.toml and the command line).                     *)
(***************************************************************************)
REQUIRED_SETTINGS == {"ROOT_FOLDER_PATH", "EXCLUSION_OVERRIDES", "CLOSE_DELAY",
                      "PRESERVE_FILE_NAMES", "MIRROR_FOLDER_PATH", "PATH_SEPARATOR"}

\* config.get(setting) == "" or config.get(setting) is None
Useless(setting) == config.state[setting] # "ok"

missing_setting_errors == {s \in REQUIRED_SETTINGS : Useless(s)}

ROOT_FOLDER_PATH == config.ROOT_FOLDER_PATH
EXCLUSION_OVERRIDES == config.EXCLUSION_OVERRIDES
PRESERVE_FILE_NAMES == config.PRESERVE_FILE_NAMES
PATH_SEPARATOR == config.PATH_SEPARATOR
RANDOMIZE == randomize

MIRROR_FOLDER_PATH ==
  IF config.MIRROR_FOLDER_PATH = <<DotValue>> THEN ROOT_FOLDER_PATH
  ELSE config.MIRROR_FOLDER_PATH

REAL_MIRROR_FOLDER == MIRROR_FOLDER_PATH \o <<MirrorName>>

(***************************************************************************)
(* The file system: the source tree is fixed, the mirror directory changes.*)
(***************************************************************************)
IsPrefix(d, p) == Len(d) <= Len(p) /\ SubSeq(p, 1, Len(d)) = d

ProperPrefixes(p) == {SubSeq(p, 1, n) : n \in 1..(Len(p) - 1)}

StaticFiles == IF rootExists THEN {<<RootName>> \o p : p \in tree} ELSE {}

StaticDirs ==
  (IF rootExists THEN {<<RootName>>} ELSE {}) \cup {<<ExtName>>}
    \cup UNION {ProperPrefixes(f) : f \in StaticFiles}

InMirror(p) ==
  /\ mirrorExists
  /\ Len(p) = Len(REAL_MIRROR_FOLDER) + 1
  /\ IsPrefix(REAL_MIRROR_FOLDER, p)

\* os.path.exists
PathExists(p) ==
  \/ p \in StaticFiles \cup StaticDirs
  \/ mirrorExists /\ p = REAL_MIRROR_FOLDER
  \/ InMirror(p) /\ p[Len(p)] \in (DOMAIN mirror) \cup strays

\* os.path.isfile
IsFile(p) ==
  \/ p \in StaticFiles
  \/ InMirror(p) /\ p[Len(p)] \in DOMAIN mirror

IsDir(p) ==
  \/ p \in StaticDirs
  \/ mirrorExists /\ p = REAL_MIRROR_FOLDER
  \/ InMirror(p) /\ p[Len(p)] \in strays

Children(d) ==
  {q[Len(d) + 1] : q \in {r \in StaticFiles \cup StaticDirs :
                            Len(r) > Len(d) /\ IsPrefix(d, r)}}
    \cup (IF mirrorExists /\ REAL_MIRROR_FOLDER = d \o <<MirrorName>>
          THEN {MirrorName} ELSE {})
    \cup (IF mirrorExists /\ d = REAL_MIRROR_FOLDER
          THEN (DOMAIN mirror) \cup strays ELSE {})

First(S) ==
  IF listOrder = "asc"
  THEN CHOOSE x \in S : \A y \in S \ {x} : StrLess(x, y)
  ELSE CHOOSE x \in S : \A y \in S \ {x} : StrLess(y, x)

RECURSIVE Enumerate(_)
Enumerate(S) ==
  IF S = {} THEN <<>> ELSE <<First(S)>> \o Enumerate(S \ {First(S)})

\* os.listdir raises OSError on what is not a listable directory
Listable(d) ==
  /\ IsDir(d)
  /\ \A u \in UnlistableDirs : d # <<RootName>> \o u

\* os.listdir: the entries in the order the file system gives them
ListDir(d) == Enumerate(Children(d))

\* shutil.copyfile raises OSError when the source cannot be read
Readable(p) == \A u \in UnreadableFiles : p # <<RootName>> \o u

FileBytes(p) ==
  IF p \in StaticFiles THEN BytesOf(SubSeq(p, 2, Len(p)))
  ELSE mirror[p[Len(p)]]

Put(m, name, bytes) ==
  [n \in (DOMAIN m) \cup {name} |-> IF n = name THEN bytes ELSE m[n]]

\* an erase that deletes nothing
Remove_Keep(m, name) == m

Remove(m, name) == [n \in (DOMAIN m) \ {name} |-> m[n]]

EmptyDir == [n \in {} |-> 0]

(***************************************************************************)
(* The script.                                                             *)
(***************************************************************************)
LogLine(level, event, subject) ==
  [level |-> level, event |-> event, subject |-> subject]

\* lines 87-94 (exit on a useless setting), then lines 96-102
ValidateSettings ==
  /\ pc = "validate"
  /\ IF missing_setting_errors # {}
     THEN /\ log' = log \o <<LogLine("CRITICAL", "settings", <<>>),
                               LogLine("CRITICAL", "regenerate", <<>>)>>
          /\ pc' = "exited"
     ELSE /\ log' = log
          /\ pc' = "checkRoot"
  /\ UNCHANGED <<config, randomize, tree, rootExists, listOrder, mirrorExists,
                 mirror, strays, eraseList, stack, copied, run, mirror0,
                 exists0, snap>>

\* the root check that reports the missing root and goes on
CheckRoot_GoOn ==
  /\ pc = "checkRoot"
  /\ log' = IF ~PathExists(ROOT_FOLDER_PATH)
            THEN Append(log, LogLine("CRITICAL", "root", ROOT_FOLDER_PATH))
            ELSE log
  /\ pc' = "checkMirror"
  /\ UNCHANGED <<config, randomize, tree, rootExists, listOrder, mirrorExists,
                 mirror, strays, eraseList, stack, copied, run, mirror0,
                 exists0, snap>>

\* lines 104-106
CheckRoot ==
  /\ pc = "checkRoot"
  /\ IF ~PathExists(ROOT_FOLDER_PATH)
     THEN /\ log' = Append(log, LogLine("CRITICAL", "root", ROOT_FOLDER_PATH))
          /\ pc' = "exited"
     ELSE /\ log' = log
          /\ pc' = "checkMirror"
  /\ UNCHANGED <<config, randomize, tree, rootExists, listOrder, mirrorExists,
                 mirror, strays, eraseList, stack, copied, run, mirror0,
                 exists0, snap>>

\* lines 107-109: os.mkdir raises when the parent folder does not exist
EnsureMirror ==
  /\ pc = "checkMirror"
  /\ IF PathExists(REAL_MIRROR_FOLDER)
     THEN /\ pc' = "mirrorReady"
          /\ UNCHANGED <<mirrorExists, mirror, strays>>
     ELSE IF IsDir(MIRROR_FOLDER_PATH)
          THEN /\ pc' = "mirrorReady"
               /\ mirrorExists' = TRUE
               /\ mirror' = EmptyDir
               /\ strays' = {}
          ELSE /\ pc' = "crashed"
               /\ UNCHANGED <<mirrorExists, mirror, strays>>
  /\ UNCHANGED <<config, randomize, tree, rootExists, listOrder, eraseList,
                 stack, log, copied, run, mirror0, exists0, snap>>

\* lines 143-144: the listing the erase loop iterates over
BeginErase ==
  /\ pc = "mirrorReady"
  /\ eraseList' = ListDir(REAL_MIRROR_FOLDER)
  /\ pc' = "erase"
  /\ UNCHANGED <<config, randomize, tree, rootExists, listOrder, mirrorExists,
                 mirror, strays, stack, log, copied, run, mirror0, exists0,
                 snap>>

\* lines 144-146: os.remove deletes a file and raises on a directory
EraseEntry ==
  /\ pc = "erase"
  /\ eraseList # <<>>
  /\ IF Head(eraseList) \in DOMAIN mirror
     THEN /\ mirror' = Remove(mirror, Head(eraseList))
          /\ eraseList' = Tail(eraseList)
          /\ pc' = pc
     ELSE /\ pc' = "crashed"
          /\ UNCHANGED <<mirror, eraseList>>
  /\ UNCHANGED <<config, randomize, tree, rootExists, listOrder, mirrorExists,
                 strays, stack, log, copied, run, mirror0, exists0, snap>>

Frame(path, list) == [path |-> path, list |-> list, i |-> 0]

\* lines 149-150: the listing the update loop iterates over
BeginUpdate ==
  /\ pc = "erase"
  /\ eraseList = <<>>
  /\ stack' = <<Frame(<<>>, ListDir(ROOT_FOLDER_PATH))>>
  /\ pc' = "update"
  /\ UNCHANGED <<config, randomize, tree, rootExists, listOrder, mirrorExists,
                 mirror, strays, eraseList, log, copied, run, mirror0, exists0,
                 snap>>

Top == stack[Len(stack)]

\* the loop of the top frame goes on to its next entry
Advance(stk) == [stk EXCEPT ![Len(stk)].i = @ + 1]

\* a call after which the caller returns instead of continuing its loop
MirrorFiles_ThenReturn(stk, lg, path) ==
  IF Listable(ROOT_FOLDER_PATH \o path)
  THEN [stack |-> Append([stk EXCEPT ![Len(stk)].i = Len(stk[Len(stk)].list)],
                         Frame(path, ListDir(ROOT_FOLDER_PATH \o path))),
        log |-> lg]
  ELSE [stack |-> stk,
        log |-> Append(lg, LogLine("ERROR", "folder", path))]

\* lines 112-115 and 139-140: MirrorFiles(path) lists the folder and starts
\* its loop, or logs the OSError of os.listdir and returns
MirrorFiles(stk, lg, path) ==
  IF Listable(ROOT_FOLDER_PATH \o path)
  THEN [stack |-> Append(stk, Frame(path, ListDir(ROOT_FOLDER_PATH \o path))),
        log |-> lg]
  ELSE [stack |-> stk,
        log |-> Append(lg, LogLine("ERROR", "folder", path))]

\* an exclusion test that forgets the dot prefix rule
Excluded_Never(folder_name) == FALSE

\* line 154
Excluded(folder_name) ==
  StartsWith(folder_name, ".") /\ ~InList(folder_name, EXCLUSION_OVERRIDES)

\* lines 150-159: one iteration of the update loop
TopEntry ==
  /\ pc = "update"
  /\ Len(stack) = 1
  /\ Top.i < Len(Top.list)
  /\ LET folder_name == Top.list[Top.i + 1]
     IN  IF IsFile(ROOT_FOLDER_PATH \o <<folder_name>>)
         THEN /\ log' = Append(log, LogLine("WARNING", "notfolder", <<folder_name>>))
              /\ stack' = Advance(stack)
         ELSE IF Excluded(folder_name)
         THEN /\ log' = log
              /\ stack' = Advance(stack)
         ELSE LET r == MirrorFiles(Advance(stack), log, <<folder_name>>)
              IN  /\ log' = r.log
                  /\ stack' = r.stack
  /\ UNCHANGED <<config, randomize, tree, rootExists, listOrder, mirrorExists,
                 mirror, strays, pc, eraseList, copied, run, mirror0, exists0,
                 snap>>

\* a destination name that loses the extension
FileName_NoExtension(path, file_name, extension, i, random) ==
  IF ~RANDOMIZE
  THEN Join(PATH_SEPARATOR, path) \o <<".">>
         \o (IF PRESERVE_FILE_NAMES THEN file_name ELSE IntToStr(i))
  ELSE random

\* line 132
FileName(path, file_name, extension, i, random) ==
  IF ~RANDOMIZE
  THEN Join(PATH_SEPARATOR, path) \o <<".">>
         \o (IF PRESERVE_FILE_NAMES THEN file_name ELSE IntToStr(i))
         \o <<".">> \o extension
  ELSE random \o <<".">> \o extension

\* a copy error that leaves the loop of the folder
OnCopyError_Abort(stk) == SubSeq(stk, 1, Len(stk) - 1)

\* lines 136-138: the OSError of one copy is logged and the loop continues
OnCopyError(stk) == Advance(stk)

\* the files listed before position i of a frame
FilesBefore(f) ==
  Cardinality({j \in 1..f.i : IsFile(ROOT_FOLDER_PATH \o f.path \o <<f.list[j]>>)})

\* lines 115-138: one iteration of the loop of MirrorFiles
WalkEntry ==
  /\ pc = "update"
  /\ Len(stack) > 1
  /\ Top.i < Len(Top.list)
  /\ LET path == Top.path
         i == Top.i
         file_or_folder == Top.list[i + 1]
         source == ROOT_FOLDER_PATH \o path \o <<file_or_folder>>
         m == SplitExtension(file_or_folder)
         lg == IF m.matched THEN log
               ELSE Append(log, LogLine("WARNING", "noextension", source))
     IN  IF ~IsFile(source)
         THEN LET r == MirrorFiles(Advance(stack), log, path \o <<file_or_folder>>)
              IN  /\ log' = r.log
                  /\ stack' = r.stack
                  /\ UNCHANGED <<mirror, copied>>
         ELSE \E random \in (IF RANDOMIZE THEN RandomNames ELSE {<<>>}) :
                LET FILE_NAME == FileName(path, m.file_name, m.extension, i, random)
                IN  IF Readable(source)
                    THEN /\ mirror' = Put(mirror, FILE_NAME, FileBytes(source))
                         /\ copied' = Append(copied,
                              [src |-> source, dst |-> FILE_NAME,
                               bytes |-> FileBytes(source), path |-> path,
                               i |-> i, nth |-> FilesBefore(Top)])
                         /\ stack' = Advance(stack)
                         /\ log' = lg
                    ELSE /\ log' = Append(lg, LogLine("ERROR", "file", source))
                         /\ stack' = OnCopyError(stack)
                         /\ UNCHANGED <<mirror, copied>>
  /\ UNCHANGED <<config, randomize, tree, rootExists, listOrder, mirrorExists,
                 strays, pc, eraseList, run, mirror0, exists0, snap>>

\* the loop of MirrorFiles is exhausted: the call returns to its caller
Return ==
  /\ pc = "update"
  /\ Len(stack) > 1
  /\ Top.i >= Len(Top.list)
  /\ stack' = SubSeq(stack, 1, Len(stack) - 1)
  /\ UNCHANGED <<config, randomize, tree, rootExists, listOrder, mirrorExists,
                 mirror, strays, pc, eraseList, log, copied, run, mirror0,
                 exists0, snap>>

\* line 160: the update loop is exhausted
Finish ==
  /\ pc = "update"
  /\ Len(stack) = 1
  /\ Top.i >= Len(Top.list)
  /\ log' = Append(log, LogLine("INFO", "updated", <<>>))
  /\ stack' = <<>>
  /\ pc' = "done"
  /\ UNCHANGED <<config, randomize, tree, rootExists, listOrder, mirrorExists,
                 mirror, strays, eraseList, copied, run, mirror0, exists0,
                 snap>>

\* the script is started again on the same settings and the same source tree
\* (consecutive runs are explored for the naming policies that draw nothing
\* at random)
NextRun ==
  /\ pc = "done"
  /\ run < MaxRuns
  /\ ~RANDOMIZE
  /\ run' = run + 1
  /\ pc' = "validate"
  /\ log' = <<>>
  /\ copied' = <<>>
  /\ eraseList' = <<>>
  /\ snap' = mirror
  /\ mirror0' = mirror
  /\ exists0' = mirrorExists
  /\ UNCHANGED <<config, randomize, tree, rootExists, listOrder, mirrorExists,
                 mirror, strays, stack>>


(***************************************************************************)
(* Initial states: the settings, the source tree and the mirror folder the *)
(* script is started on.                                                   *)
(***************************************************************************)
MissingName == <<"N">>

SettingStates ==
  {st \in [REQUIRED_SETTINGS -> {"ok", "empty", "none"}] :
     Cardinality({s \in REQUIRED_SETTINGS : st[s] # "ok"}) <= MaxUseless}

Trees == {t \in SUBSET CandidateSet : Cardinality(t) <= MaxFiles}

DefaultTree == {CandidateFiles[2]}

MirrorChoices ==
  { [exists |-> FALSE, files |-> EmptyDir, strays |-> {}],
    [exists |-> TRUE, files |-> Put(EmptyDir, OldName, OldBytes), strays |-> {}],
    [exists |-> TRUE, files |-> Put(EmptyDir, OldName, OldBytes),
     strays |-> {StrayName}] }

Init ==
  /\ \E st \in SettingStates, ov \in OverrideChoices, pr \in BOOLEAN,
        mp \in {<<DotValue>>, <<ExtName>>, <<MissingName>>} :
       config = [ROOT_FOLDER_PATH |-> <<RootName>>,
                 EXCLUSION_OVERRIDES |-> ov,
                 CLOSE_DELAY |-> 0,
                 PRESERVE_FILE_NAMES |-> pr,
                 MIRROR_FOLDER_PATH |-> mp,
                 PATH_SEPARATOR |-> DefaultSeparator,
                 state |-> st]
  /\ randomize \in BOOLEAN
  /\ rootExists \in BOOLEAN
  /\ tree \in Trees
  /\ listOrder \in {"asc", "desc"}
  /\ \E mc \in MirrorChoices :
       /\ mirrorExists = mc.exists
       /\ mirror = mc.files
       /\ strays = mc.strays
  \* a folder that exists has an existing parent
  /\ mirrorExists => IsDir(MIRROR_FOLDER_PATH)
  /\ ~rootExists => tree = {}
  \* one naming policy per pair of flags that selects it
  /\ randomize => config.PRESERVE_FILE_NAMES
  \* the runs that stop before the walk are explored on one source tree
  /\ (missing_setting_errors # {} \/ config.MIRROR_FOLDER_PATH = <<MissingName>>)
       => /\ rootExists => tree = DefaultTree
          /\ ~randomize
          /\ config.PRESERVE_FILE_NAMES
          /\ config.EXCLUSION_OVERRIDES = <<>>
          /\ listOrder = "asc"
  /\ ~rootExists => /\ ~randomize
                    /\ config.PRESERVE_FILE_NAMES
                    /\ config.EXCLUSION_OVERRIDES = <<>>
                    /\ listOrder = "asc"
  /\ pc = "validate"
  /\ eraseList = <<>>
  /\ stack = <<>>
  /\ log = <<>>
  /\ copied = <<>>
  /\ run = 1
  /\ mirror0 = mirror
  /\ exists0 = mirrorExists
  /\ snap = EmptyDir

Next ==
  \/ ValidateSettings
  \/ CheckRoot
  \/ EnsureMirror
  \/ BeginErase
  \/ EraseEntry
  \/ BeginUpdate
  \/ TopEntry
  \/ WalkEntry
  \/ Return
  \/ Finish
  \/ NextRun

Spec == Init /\ [][Next]_vars

TypeOK ==
  /\ pc \in {"validate", "checkRoot", "checkMirror", "mirrorReady", "erase",
             "update", "done", "exited", "crashed"}
  /\ run \in 1..MaxRuns
  /\ tree \subseteq CandidateSet

(***************************************************************************)
(* Vocabulary of the properties.                                           *)
(***************************************************************************)
Copies == {copied[j] : j \in 1..Len(copied)}

Overrides == {config.EXCLUSION_OVERRIDES[j] : j \in 1..Len(config.EXCLUSION_OVERRIDES)}

\* a folder name the exclusion rule is about
DotFolder(name) == name[1] = "." /\ name \notin Overrides

\* the folders on the way from the root to a file of the tree
FoldersOf(f) == {f[j] : j \in 1..(Len(f) - 1)}

ExtensionOf(name) == SplitExtension(name).extension

HoldingBytes(b) == {n \in DOMAIN mirror : mirror[n] = b}

ErrorLines(event, subject) ==
  {j \in 1..Len(log) : /\ log[j].level = "ERROR"
                       /\ log[j].event = event
                       /\ log[j].subject = subject}

AllErrorLines == {j \in 1..Len(log) : log[j].level = "ERROR"}

NoCollision ==
  \A c1, c2 \in Copies : c1.dst = c2.dst => c1.src = c2.src

\* the mirror folder lies in a folder the update loop walks
MirrorWalked ==
  /\ IsPrefix(<<RootName>>, REAL_MIRROR_FOLDER)
  /\ ~DotFolder(REAL_MIRROR_FOLDER[2])

\* the files of the tree in the top-level folders the update loop walks
InWalkedFolder == {f \in tree : Len(f) >= 2 /\ ~DotFolder(f[1])}

UnderUnlistable(f) ==
  \E u \in UnlistableDirs : Len(f) > Len(u) /\ IsPrefix(u, f)

\* the unlistable folders the walk comes to
UnlistableReached ==
  {u \in UnlistableDirs : \E f \in InWalkedFolder : Len(f) > Len(u) /\ IsPrefix(u, f)}

(***************************************************************************)
(* C1.  Exclusion law.                                                     *)
(***************************************************************************)
\* C1 as claimed: after a run, a folder at any depth whose name starts with
\* "." and is not an exclusion override has none of its files, nor of its
\* descendants' files, in the mirror.
C1_ExclusionAnyDepth ==
  pc = "done" =>
    \A f \in tree :
      (\E d \in FoldersOf(f) : DotFolder(d)) => HoldingBytes(BytesOf(f)) = {}

\* C1 as amended: a folder located directly in the root folder whose name
\* starts with "." and is not an exclusion override contributes no file to
\* the mirror, neither its own nor a descendant's; no copy is ever made from
\* it.
C1_ExclusionTopLevel ==
  \A f \in tree :
    (Len(f) >= 2 /\ DotFolder(f[1])) =>
      /\ HoldingBytes(BytesOf(f)) = {}
      /\ \A c \in Copies : c.src # <<RootName>> \o f

C1_Witness ==
  /\ pc = "done"
  /\ copied # <<>>
  /\ \E f \in tree : Len(f) >= 2 /\ DotFolder(f[1])

(***************************************************************************)
(* C2.  Extension disqualification.                                        *)
(***************************************************************************)
\* C2 as claimed: no source file whose extension is "ini" is ever copied
\* into the mirror, under any name.
C2_IniNeverCopied ==
  \A f \in tree :
    ExtensionOf(f[Len(f)]) = IniExt =>
      /\ HoldingBytes(BytesOf(f)) = {}
      /\ \A c \in Copies : c.src # <<RootName>> \o f

\* C2 as amended: no extension is disqualified.  A source file whose
\* extension is "ini" is copied like any other file the walk comes to, and
\* under every naming policy the destination name keeps the extension "ini".
C2_IniCopiedLikeAnyFile ==
  /\ \A c \in Copies :
       ExtensionOf(c.src[Len(c.src)]) = IniExt => ExtensionOf(c.dst) = IniExt
  /\ pc = "done" =>
       \A f \in InWalkedFolder :
         (ExtensionOf(f[Len(f)]) = IniExt /\ ~UnderUnlistable(f)
            /\ f \notin UnreadableFiles)
           => \E c \in Copies : c.src = <<RootName>> \o f /\ c.bytes = BytesOf(f)

C2_Witness ==
  /\ pc = "done"
  /\ \E f \in tree :
       /\ ExtensionOf(f[Len(f)]) = IniExt
       /\ \E n \in HoldingBytes(BytesOf(f)) : ExtensionOf(n) = IniExt

(***************************************************************************)
(* C3.  Completeness of the mirror.                                        *)
(***************************************************************************)
\* C3 as claimed: after a completed run without I/O error and without
\* destination-name collision, every non-excluded file of the tree at every
\* depth, the files directly in the root folder included, has exactly one
\* entry in the mirror holding its bytes, and the mirror holds nothing else.
C3_CompleteFromRoot ==
  (pc = "done" /\ AllErrorLines = {} /\ NoCollision) =>
    /\ \A f \in tree :
         (\A d \in FoldersOf(f) : ~DotFolder(d))
           => Cardinality(HoldingBytes(BytesOf(f))) = 1
    /\ \A n \in DOMAIN mirror :
         \E f \in tree : /\ \A d \in FoldersOf(f) : ~DotFolder(d)
                         /\ mirror[n] = BytesOf(f)

\* C3 as amended: after a completed run without I/O error and without
\* destination-name collision, the mirror folder not lying in a walked
\* folder, every file at any depth below a top-level folder that is not
\* excluded has exactly one entry in the mirror holding its bytes, and the
\* mirror holds nothing else; files directly in the root folder are not
\* mirrored.
C3_CompleteBelowTopFolders ==
  (pc = "done" /\ AllErrorLines = {} /\ NoCollision /\ ~MirrorWalked) =>
    /\ \A f \in InWalkedFolder : Cardinality(HoldingBytes(BytesOf(f))) = 1
    /\ \A n \in DOMAIN mirror : \E f \in InWalkedFolder : mirror[n] = BytesOf(f)

C3_Witness ==
  /\ pc = "done" /\ AllErrorLines = {} /\ NoCollision /\ ~MirrorWalked
  /\ mirror0 # EmptyDir
  /\ \E f \in tree : Len(f) = 1
  /\ \E g \in InWalkedFolder : Len(g) = 3 /\ HoldingBytes(BytesOf(g)) # {}

(***************************************************************************)
(* C4.  Preserve-names encoding.                                           *)
(***************************************************************************)
\* C4: with preserve-names and without randomize, the destination name is
\* the folders from the root to the file and then the file name (base name,
\* ".", extension), all joined by the separator: root/a/b/file.txt is
\* written as a#,b#,file.txt.
C4_SeparatorBeforeFileName ==
  (PRESERVE_FILE_NAMES /\ ~RANDOMIZE) =>
    \A c \in Copies :
      LET m == SplitExtension(c.src[Len(c.src)])
      IN  c.dst = Join(PATH_SEPARATOR,
                       c.path \o <<m.file_name \o <<".">> \o m.extension>>)

(***************************************************************************)
(* C5.  Positional encoding.                                               *)
(***************************************************************************)
\* C5: without preserve-names and without randomize, the index written into
\* a destination name is the zero-based position of the file among the FILES
\* of its folder, whatever subfolders are listed among or before them.
C5_IndexAmongFiles ==
  (~PRESERVE_FILE_NAMES /\ ~RANDOMIZE) =>
    \A c \in Copies :
      /\ c.i = c.nth
      /\ c.dst = Join(PATH_SEPARATOR, c.path) \o <<".">> \o IntToStr(c.nth)
                   \o <<".">> \o ExtensionOf(c.src[Len(c.src)])

(***************************************************************************)
(* C6.  Fatal paths.                                                       *)
(***************************************************************************)
\* C6: when a required setting is missing or an empty string, or the root
\* folder does not exist, the run never mutates the mirror: no entry is
\* deleted, no file is copied, the mirror folder is not created.
C6_FatalNoMutation ==
  ((\E s \in REQUIRED_SETTINGS : config.state[s] \in {"empty", "none"})
     \/ ~rootExists) =>
    /\ mirror = mirror0
    /\ mirrorExists = exists0
    /\ copied = <<>>
    /\ pc \notin {"done", "crashed"}

C6_Witness ==
  /\ pc = "exited"
  /\ mirrorExists
  /\ OldName \in DOMAIN mirror
  /\ Len(log) >= 1

(***************************************************************************)
(* C7.  Per-entry I/O errors.                                              *)
(***************************************************************************)
C7_AtSummary ==
  pc = "done" =>
    /\ \A f \in InWalkedFolder :
         ~UnderUnlistable(f) =>
           IF f \in UnreadableFiles
           THEN /\ \A c \in Copies : c.src # <<RootName>> \o f
                /\ Cardinality(ErrorLines("file", <<RootName>> \o f)) = 1
           ELSE \E c \in Copies : c.src = <<RootName>> \o f /\ c.bytes = BytesOf(f)
    /\ \A u \in UnlistableReached :
         /\ Cardinality(ErrorLines("folder", u)) = 1
         /\ \A c \in Copies : ~IsPrefix(<<RootName>> \o u, c.src)
    /\ Cardinality(AllErrorLines) =
         Cardinality({f \in InWalkedFolder : f \in UnreadableFiles})
           + Cardinality(UnlistableReached)
    /\ log[Len(log)] = LogLine("INFO", "updated", <<>>)

\* C7: a failing copy skips exactly that file with one ERROR line, a failing
\* listing skips exactly that folder with one ERROR line, every other file
\* the walk comes to is copied, and the walk is never aborted: it goes on to
\* the success summary.
C7_ErrorsRecovered ==
  /\ []C7_AtSummary
  /\ [][pc = "update" => pc' \in {"update", "done"}]_vars
  /\ (pc = "update") ~> (pc = "done")

C7_Witness ==
  /\ pc = "done"
  /\ \E f \in InWalkedFolder : f \in UnreadableFiles
  /\ copied # <<>>
  /\ Cardinality(AllErrorLines) = 1

(***************************************************************************)
(* C8.  Idempotence of structure.                                          *)
(***************************************************************************)
\* C8: without randomize, a second completed run on the same source tree
\* and settings leaves the mirror with the same destination names holding
\* the same bytes as the run before it, wherever the mirror folder lies and
\* whatever the exclusion overrides are.
C8_Idempotent ==
  (pc = "done" /\ run >= 2 /\ ~RANDOMIZE) => mirror = snap

C8_Witness ==
  /\ pc = "done" /\ run >= 2 /\ ~RANDOMIZE
  /\ MirrorWalked
  /\ \E c \in Copies : IsPrefix(REAL_MIRROR_FOLDER, c.src)
  /\ mirror = snap

(***************************************************************************)
(* C9.  Stray folder in the mirror.                                        *)
(***************************************************************************)
\* C9: the erase step tolerates a folder inside the mirror folder: the run
\* does not fail on it, it leaves the folder in place, deletes the other
\* entries and goes on to the rebuild and the success summary.
C9_StrayTolerated ==
  strays # {} =>
    /\ pc # "crashed"
    /\ pc \in {"update", "done"} =>
         \A n \in DOMAIN mirror : \E c \in Copies : c.dst = n

(***************************************************************************)
(* C10.  Erase, then rebuild.                                              *)
(***************************************************************************)
\* C10: in every run the erase step deletes every entry that was in the
\* mirror folder when it started, before anything is copied: once the erase
\* step is over, whatever is in the mirror was written by a copy of this run.
C10_EraseThenRebuild ==
  pc \in {"update", "done", "crashed"} =>
    /\ strays = {}
    /\ \A n \in DOMAIN mirror :
         \E j \in 1..Len(copied) :
           /\ copied[j].dst = n
           /\ \A l \in (j + 1)..Len(copied) : copied[l].dst # n
           /\ mirror[n] = copied[j].bytes

\* The runs that get to the walk with the mirror folder outside the root:
\* valid settings, an existing root, a mirror folder holding an old file.
\* The script is one sequential process that always takes its next step,
\* hence the weak fairness of Next.
WalkInit ==
  /\ Init
  /\ missing_setting_errors = {}
  /\ rootExists
  /\ config.MIRROR_FOLDER_PATH = <<ExtName>>
  /\ config.EXCLUSION_OVERRIDES = <<>>
  /\ mirrorExists
  /\ strays = {}

WalkSpec == WalkInit /\ [][Next]_vars /\ WF_vars(Next)

====
